---- MODULE Spec2Model ----
(***************************************************************************)
(* Model of compact_ranges.py: main() reads the published prefix list,     *)
(* coalesce_prefixes() collapses all prefixes without metadata, and        *)
(* coalesce_with_metadata() groups by (region, service,                    *)
(* network_border_group), collapses each group, reconciles overlapping     *)
(* blocks of different groups and sorts the result.                        *)
(*                                                                         *)
(* One address family is modelled; its address width is W bits instead of  *)
(* 32 or 128.  A prefix string "a/l" is the pair <<a, l>>, a network       *)
(* object is the record [network_address, prefixlen].  The functions of    *)
(* the ipaddress library that the program calls (collapse_addresses,       *)
(* overlaps, supernet_of, the network ordering) are modelled as the        *)
(* library computes them.                                                  *)
(***************************************************************************)
EXTENDS Integers, Sequences, FiniteSets, TLC

\* address width of the modelled family, in bits
W == 2
\* largest number of entries in the fetched prefix list
MaxLen == 3

None == "<absent>"

ALL_ONES == 2^W - 1

Range(s) == {s[k] : k \in DOMAIN s}

Min2(a, b) == IF a <= b THEN a ELSE b

(***************************************************************************)
(* Network objects                                                         *)
(***************************************************************************)
Net(a, l) == [network_address |-> a, prefixlen |-> l]

\* every canonical network of the family (no bit set beyond the prefix)
Networks == {n \in [network_address : 0..ALL_ONES, prefixlen : 0..W] :
                n.network_address % (2^(W - n.prefixlen)) = 0}

\* the text form of a network, as in the fetched document
PrefixStrings == {<<n.network_address, n.prefixlen>> : n \in Networks}

\* IPv4Network(p) / IPv6Network(p): parse the text "a/l"
IPNetwork(p) == Net(p[1], p[2])

\* str(network)
Str(n) == <<n.network_address, n.prefixlen>>

broadcast_address(n) == n.network_address + 2^(W - n.prefixlen) - 1

\* addr in network
Contains(n, addr) == n.network_address <= addr /\ addr <= broadcast_address(n)

overlaps(self, other) ==
    \/ Contains(other, self.network_address)
    \/ Contains(other, broadcast_address(self))
    \/ Contains(self, other.network_address)
    \/ Contains(self, broadcast_address(other))

\* _is_subnet_of(a, b)
is_subnet_of(a, b) ==
    /\ b.network_address <= a.network_address
    /\ broadcast_address(b) >= broadcast_address(a)

supernet_of(self, other) == is_subnet_of(other, self)

supernet(self) ==
    IF self.prefixlen = 0 THEN self
    ELSE LET size == 2^(W - self.prefixlen + 1)
         IN  Net((self.network_address \div size) * size, self.prefixlen - 1)

\* _BaseNetwork.__lt__: network address, then netmask
NetLT(a, b) ==
    IF a.network_address # b.network_address
    THEN a.network_address < b.network_address
    ELSE a.prefixlen < b.prefixlen

\* sorted(...) of distinct networks
RECURSIVE SortedNets(_)
SortedNets(S) ==
    IF S = {} THEN <<>>
    ELSE LET m == CHOOSE x \in S : \A y \in S \ {x} : NetLT(x, y)
         IN  <<m>> \o SortedNets(S \ {m})

\* sorted(set(ips))
RECURSIVE SortedInts(_)
SortedInts(S) ==
    IF S = {} THEN <<>>
    ELSE LET m == CHOOSE x \in S : \A y \in S \ {x} : x < y
         IN  <<m>> \o SortedInts(S \ {m})

(***************************************************************************)
(* ipaddress.collapse_addresses                                            *)
(***************************************************************************)
\* _find_address_range over the sorted, deduplicated addresses
RECURSIVE find_address_range(_, _, _, _)
find_address_range(addresses, k, first, last) ==
    IF k > Len(addresses) THEN << <<first, last>> >>
    ELSE IF addresses[k] # last + 1
         THEN << <<first, last>> >> \o
              find_address_range(addresses, k + 1, addresses[k], addresses[k])
         ELSE find_address_range(addresses, k + 1, first, addresses[k])

\* _count_righthand_zero_bits(number, bits)
RECURSIVE count_righthand_zero_bits(_, _)
count_righthand_zero_bits(number, bits) ==
    IF number = 0 \/ bits = 0 THEN bits
    ELSE IF number % 2 = 1 THEN 0
    ELSE 1 + count_righthand_zero_bits(number \div 2, bits - 1)

\* int.bit_length()
RECURSIVE bit_length(_)
bit_length(x) == IF x = 0 THEN 0 ELSE 1 + bit_length(x \div 2)

RECURSIVE summarize_address_range(_, _)
summarize_address_range(first_int, last_int) ==
    IF first_int > last_int THEN <<>>
    ELSE LET nbits == Min2(count_righthand_zero_bits(first_int, W),
                           bit_length(last_int - first_int + 1) - 1)
             net   == Net(first_int, W - nbits)
             next  == first_int + 2^nbits
         IN  IF next - 1 = ALL_ONES THEN <<net>>
             ELSE <<net>> \o summarize_address_range(next, last_int)

RECURSIVE SummarizeAll(_, _)
SummarizeAll(ranges, k) ==
    IF k > Len(ranges) THEN <<>>
    ELSE summarize_address_range(ranges[k][1], ranges[k][2]) \o
         SummarizeAll(ranges, k + 1)

\* the "First merge" loop: to_merge is a stack, subnets maps supernet -> net
RECURSIVE MergeLoop(_, _)
MergeLoop(to_merge, subnets) ==
    IF to_merge = <<>> THEN subnets
    ELSE LET net  == to_merge[Len(to_merge)]
             rest == SubSeq(to_merge, 1, Len(to_merge) - 1)
             sup  == supernet(net)
         IN  IF sup \notin DOMAIN subnets
             THEN MergeLoop(rest, subnets @@ (sup :> net))
             ELSE IF subnets[sup] # net
             THEN MergeLoop(Append(rest, sup),
                            [k \in DOMAIN subnets \ {sup} |-> subnets[k]])
             ELSE MergeLoop(rest, subnets)

\* the second loop: skip the networks subsumed by the last one yielded;
\* last is <<>> for Python's None and <<net>> otherwise
RECURSIVE SkipSubsumed(_, _, _)
SkipSubsumed(nets, k, last) ==
    IF k > Len(nets) THEN <<>>
    ELSE IF last # <<>> /\ broadcast_address(last[1]) >= broadcast_address(nets[k])
         THEN SkipSubsumed(nets, k + 1, last)
         ELSE <<nets[k]>> \o SkipSubsumed(nets, k + 1, <<nets[k]>>)

\* the second loop left out: subsumed networks stay in the result
collapse_addresses_internal_NoSkip(addresses) ==
    LET subnets == MergeLoop(addresses, <<>>)
    IN  SortedNets({subnets[k] : k \in DOMAIN subnets})

collapse_addresses_internal(addresses) ==
    LET subnets == MergeLoop(addresses, <<>>)
        values  == {subnets[k] : k \in DOMAIN subnets}
    IN  SkipSubsumed(SortedNets(values), 1, <<>>)

\* the summarized host addresses left out of the final collapse
collapse_addresses_NetsOnly(addresses) ==
    LET IsNet(n) == n.prefixlen # W
    IN  collapse_addresses_internal(SelectSeq(addresses, IsNet))

collapse_addresses(addresses) ==
    LET IsHost(n) == n.prefixlen = W
        IsNet(n)  == n.prefixlen # W
        ips   == SortedInts({n.network_address :
                                n \in {x \in Range(addresses) : IsHost(x)}})
        nets  == SelectSeq(addresses, IsNet)
        addrs == IF ips = <<>> THEN <<>>
                 ELSE SummarizeAll(find_address_range(ips, 2, ips[1], ips[1]), 1)
    IN  collapse_addresses_internal(addrs \o nets)

\* the networks parsed but never collapsed
coalesce_prefixes_NoCollapse(prefixes) ==
    [k \in DOMAIN prefixes |-> IPNetwork(prefixes[k])]

\* lines 45-68
coalesce_prefixes(prefixes) ==
    collapse_addresses([k \in DOMAIN prefixes |-> IPNetwork(prefixes[k])])

(***************************************************************************)
(* Metadata                                                                *)
(***************************************************************************)
\* the metadata fields of a fetched entry; None is a field left out
InputMetas ==
    { [region |-> None,        service |-> None,  network_border_group |-> None],
      [region |-> "us-east-1", service |-> "EC2", network_border_group |-> "us-east-1"],
      [region |-> "us-east-1", service |-> "S3",  network_border_group |-> "us-east-1"] }

Entries == {[ip_prefix |-> p, region |-> m.region, service |-> m.service,
             network_border_group |-> m.network_border_group] :
                p \in PrefixStrings, m \in InputMetas}

\* every prefix list the fetched document can hold, up to MaxLen entries
Inputs == UNION {[1..n -> Entries] : n \in 0..MaxLen}

\* the prefix lists main hands to coalesce_prefixes, which reads ip_prefix
\* only (lines 284-292): the metadata fields are left out
PlainInputs ==
    UNION {[1..n -> {e \in Entries : /\ e.region = None
                                     /\ e.service = None
                                     /\ e.network_border_group = None}] :
              n \in 0..MaxLen}

\* dict.get(field, default)
Get(value, default) == IF value = None THEN default ELSE value

\* lines 86-90
metadata_key(entry) ==
    << Get(entry.region, "other"),
       Get(entry.service, "OTHER"),
       Get(entry.network_border_group, "other") >>

SentinelKey == <<"other", "OTHER", "other">>

\* the key of an intermediate, processed or result entry
KeyOf(e) == <<e.region, e.service, e.network_border_group>>

\* lines 82-91: the keys of grouped, in order of first occurrence
RECURSIVE GroupKeys(_, _, _)
GroupKeys(data, k, keys) ==
    IF k > Len(data) THEN keys
    ELSE IF \E q \in DOMAIN keys : keys[q] = metadata_key(data[k])
         THEN GroupKeys(data, k + 1, keys)
         ELSE GroupKeys(data, k + 1, Append(keys, metadata_key(data[k])))

\* lines 82-91: grouped[key], the prefixes of the key in input order
RECURSIVE GroupOf(_, _, _)
GroupOf(data, k, key) ==
    IF k > Len(data) THEN <<>>
    ELSE IF metadata_key(data[k]) = key
         THEN <<data[k].ip_prefix>> \o GroupOf(data, k + 1, key)
         ELSE GroupOf(data, k + 1, key)

\* service and network_border_group stored in each other's field
TagAll_Swapped(nets, key) ==
    [k \in DOMAIN nets |-> [network |-> nets[k], region |-> key[1],
                            service |-> key[3], network_border_group |-> key[2]]]

\* lines 99-105: the collapsed networks of one group, tagged with its key
TagAll(nets, key) ==
    [k \in DOMAIN nets |-> [network |-> nets[k], region |-> key[1],
                            service |-> key[2], network_border_group |-> key[3]]]

\* lines 93-105
RECURSIVE IntraGroup(_, _, _)
IntraGroup(data, keys, g) ==
    IF g > Len(keys) THEN <<>>
    ELSE TagAll(coalesce_prefixes(GroupOf(data, 1, keys[g])), keys[g]) \o
         IntraGroup(data, keys, g + 1)

\* lines 122-124
mergeable(n1, n2) ==
    overlaps(n1, n2) \/ supernet_of(n1, n2) \/ supernet_of(n2, n1)

\* lines 116-126: the inner loop over the later entries
RECURSIVE ScanLater(_, _, _, _, _)
ScanLater(nwm, idx, j, cm, skip) ==
    IF j > Len(nwm) THEN [can_merge |-> cm, skip_indices |-> skip]
    ELSE IF j \in skip THEN ScanLater(nwm, idx, j + 1, cm, skip)
    ELSE IF mergeable(nwm[idx].network, nwm[j].network)
         THEN ScanLater(nwm, idx, j + 1, Append(cm, j), skip \cup {j})
         ELSE ScanLater(nwm, idx, j + 1, cm, skip)

\* the current entry's own network left out of the merge
networks_to_merge_NoEntry1(nwm, idx, cm) ==
    [k \in DOMAIN cm |-> nwm[cm[k]].network]

\* lines 130-134
networks_to_merge(nwm, idx, cm) ==
    <<nwm[idx].network>> \o [k \in DOMAIN cm |-> nwm[cm[k]].network]

\* the comparison never clears the flag
MetadataMatches_AlwaysTrue(nwm, idx, cm) == TRUE

\* lines 131-138
MetadataMatches(nwm, idx, cm) ==
    \A k \in DOMAIN cm :
        ~ \/ nwm[cm[k]].region # nwm[idx].region
          \/ nwm[cm[k]].service # nwm[idx].service
          \/ nwm[cm[k]].network_border_group # nwm[idx].network_border_group

\* lines 140-155
MergedEntries(nwm, idx, cm) ==
    LET merged == collapse_addresses(networks_to_merge(nwm, idx, cm))
    IN  IF MetadataMatches(nwm, idx, cm)
        THEN TagAll(merged, KeyOf(nwm[idx]))
        ELSE TagAll(merged, SentinelKey)

\* lines 159-174
Format(procd) ==
    [k \in DOMAIN procd |->
        [ip_prefix |-> Str(procd[k].network), region |-> procd[k].region,
         service |-> procd[k].service,
         network_border_group |-> procd[k].network_border_group]]

\* the key of line 178 / 180
ResultKey(x) == IPNetwork(x.ip_prefix)

\* list.sort(key=...): stable insertion by the key's order
RECURSIVE InsertResult(_, _)
InsertResult(srt, x) ==
    IF srt = <<>> THEN <<x>>
    ELSE IF NetLT(ResultKey(x), ResultKey(srt[Len(srt)]))
         THEN Append(InsertResult(SubSeq(srt, 1, Len(srt) - 1), x), srt[Len(srt)])
         ELSE Append(srt, x)

RECURSIVE SortResultPrefix(_, _)
SortResultPrefix(res, n) ==
    IF n = 0 THEN <<>> ELSE InsertResult(SortResultPrefix(res, n - 1), res[n])

\* the final sort left out
SortResult_Unsorted(res) == res

\* lines 176-180
SortResult(res) == SortResultPrefix(res, Len(res))

\* sorted(coalesced_ipv4), lines 305 and 314
RECURSIVE InsertNet(_, _)
InsertNet(srt, x) ==
    IF srt = <<>> THEN <<x>>
    ELSE IF NetLT(x, srt[Len(srt)])
         THEN Append(InsertNet(SubSeq(srt, 1, Len(srt) - 1), x), srt[Len(srt)])
         ELSE Append(srt, x)

RECURSIVE SortedNetSeq(_, _)
SortedNetSeq(nets, n) ==
    IF n = 0 THEN <<>> ELSE InsertNet(SortedNetSeq(nets, n - 1), nets[n])

\* main, lines 295-316: the compacted list carries the sentinel metadata
CompactedEntries(coalesced) ==
    LET srt == SortedNetSeq(coalesced, Len(coalesced))
    IN  [k \in DOMAIN srt |->
            [ip_prefix |-> Str(srt[k]), region |-> "other", service |-> "OTHER",
             network_border_group |-> "other"]]

(***************************************************************************)
(* State                                                                   *)
(***************************************************************************)
VARIABLES
    pc,                      \* position in main()
    raw_data,                \* raw_data['prefixes']
    compacted,               \* compacted_data['prefixes']
    networks_with_metadata,  \* the intermediate sequence
    i,                       \* index of the outer loop, line 112 (1-based)
    skip_indices,
    can_merge,               \* of the last outer iteration
    metadata_matches,        \* <<b>> after a merge set it to b; <<>> before
    processed,
    result                   \* merged_data['prefixes']

vars == <<pc, raw_data, compacted, networks_with_metadata, i, skip_indices,
          can_merge, metadata_matches, processed, result>>

Init ==
    /\ pc = "fetch"
    /\ raw_data = <<>>
    /\ compacted = <<>>
    /\ networks_with_metadata = <<>>
    /\ i = 1
    /\ skip_indices = {}
    /\ can_merge = <<>>
    /\ metadata_matches = <<>>
    /\ processed = <<>>
    /\ result = <<>>

\* lines 23-39 and 269: the document is whatever the provider publishes
get_ip_ranges ==
    /\ pc = "fetch"
    /\ \E data \in Inputs : raw_data' = data
    /\ pc' = "compact"
    /\ UNCHANGED <<compacted, networks_with_metadata, i, skip_indices,
                   can_merge, metadata_matches, processed, result>>

\* lines 269 and 284-287: a document whose entries carry prefixes only
get_prefixes ==
    /\ pc = "fetch"
    /\ \E data \in PlainInputs : raw_data' = data
    /\ pc' = "compact"
    /\ UNCHANGED <<compacted, networks_with_metadata, i, skip_indices,
                   can_merge, metadata_matches, processed, result>>

\* lines 284-316: the compacted output without metadata
Compact ==
    /\ pc = "compact"
    /\ compacted' = CompactedEntries(
            coalesce_prefixes([k \in DOMAIN raw_data |-> raw_data[k].ip_prefix]))
    /\ pc' = "group"
    /\ UNCHANGED <<raw_data, networks_with_metadata, i, skip_indices,
                   can_merge, metadata_matches, processed, result>>

\* lines 81-110: group by metadata and collapse each group
GroupAndCollapse ==
    /\ pc = "group"
    /\ networks_with_metadata' =
            IntraGroup(raw_data, GroupKeys(raw_data, 1, <<>>), 1)
    /\ processed' = <<>>
    /\ skip_indices' = {}
    /\ i' = 1
    /\ pc' = "reconcile"
    /\ UNCHANGED <<raw_data, compacted, can_merge, metadata_matches, result>>

\* lines 112-114: the entry was claimed by an earlier one
ReconcileSkip ==
    /\ pc = "reconcile"
    /\ i <= Len(networks_with_metadata)
    /\ i \in skip_indices
    /\ i' = i + 1
    /\ UNCHANGED <<pc, raw_data, compacted, networks_with_metadata,
                   skip_indices, can_merge, metadata_matches, processed, result>>

\* lines 112-157: one iteration of the outer loop for an unclaimed entry
ReconcileEntry ==
    /\ pc = "reconcile"
    /\ i <= Len(networks_with_metadata)
    /\ i \notin skip_indices
    /\ LET scan == ScanLater(networks_with_metadata, i, i + 1, <<>>, skip_indices)
       IN  /\ can_merge' = scan.can_merge
           /\ skip_indices' = scan.skip_indices
           /\ IF scan.can_merge # <<>>
              THEN /\ metadata_matches' =
                        <<MetadataMatches(networks_with_metadata, i, scan.can_merge)>>
                   /\ processed' = processed \o
                        MergedEntries(networks_with_metadata, i, scan.can_merge)
              ELSE /\ metadata_matches' = metadata_matches
                   /\ processed' = Append(processed, networks_with_metadata[i])
    /\ i' = i + 1
    /\ UNCHANGED <<pc, raw_data, compacted, networks_with_metadata, result>>

\* lines 159-182: convert to the output format and sort
FormatAndSort ==
    /\ pc = "reconcile"
    /\ i > Len(networks_with_metadata)
    /\ result' = SortResult(Format(processed))
    /\ pc' = "done"
    /\ UNCHANGED <<raw_data, compacted, networks_with_metadata, i,
                   skip_indices, can_merge, metadata_matches, processed>>

Next ==
    \/ get_ip_ranges
    \/ Compact
    \/ GroupAndCollapse
    \/ ReconcileSkip
    \/ ReconcileEntry
    \/ FormatAndSort

Spec == Init /\ [][Next]_vars

\* the Plain Collapser alone: coalesce_prefixes applied to a prefix list
NextCollapse ==
    \/ get_prefixes
    \/ Compact

SpecCollapse == Init /\ [][NextCollapse]_vars

(***************************************************************************)
(* Properties                                                              *)
(***************************************************************************)
\* the addresses a network covers
Cover(n) == n.network_address .. broadcast_address(n)

CoverAll(nets) == UNION {Cover(nets[k]) : k \in DOMAIN nets}

Disjoint(n1, n2) == Cover(n1) \cap Cover(n2) = {}

\* exactly-combinable siblings: same length, together their parent block
Siblings(n1, n2) ==
    /\ n1.prefixlen = n2.prefixlen
    /\ n1.prefixlen > 0
    /\ n1 # n2
    /\ \E p \in Networks : /\ p.prefixlen = n1.prefixlen - 1
                           /\ Cover(p) = Cover(n1) \cup Cover(n2)

Parent(n1, n2) ==
    CHOOSE p \in Networks : Cover(p) = Cover(n1) \cup Cover(n2)

InputNets == [k \in DOMAIN raw_data |-> IPNetwork(raw_data[k].ip_prefix)]
InputKey(k) == metadata_key(raw_data[k])
CompactedNets == [k \in DOMAIN compacted |-> IPNetwork(compacted[k].ip_prefix)]
ResultNets == [k \in DOMAIN result |-> IPNetwork(result[k].ip_prefix)]

\* the union of the inputs that carry key and lie inside n
SameKeyInputsIn(n, key) ==
    UNION {Cover(InputNets[k]) :
              k \in {q \in DOMAIN raw_data :
                        InputKey(q) = key /\ Cover(InputNets[q]) \subseteq Cover(n)}}

\* C1: when two inputs with different keys overlap, every output entry that
\* overlaps both of them carries the sentinel key.
C1_SentinelFallback ==
    pc = "done" =>
        \A a, b \in DOMAIN raw_data :
            (InputKey(a) # InputKey(b) /\ ~Disjoint(InputNets[a], InputNets[b])) =>
                \A r \in DOMAIN result :
                    (~Disjoint(ResultNets[r], InputNets[a]) /\
                     ~Disjoint(ResultNets[r], InputNets[b])) =>
                        KeyOf(result[r]) = SentinelKey

\* every intermediate entry, and every output entry with a non-sentinel key,
\* covers exactly the inputs of its own key that lie inside it
C2_StatePart ==
    /\ pc = "reconcile" =>
          \A k \in DOMAIN networks_with_metadata :
              Cover(networks_with_metadata[k].network) =
                  SameKeyInputsIn(networks_with_metadata[k].network,
                                  KeyOf(networks_with_metadata[k]))
    /\ pc = "done" =>
          \A r \in DOMAIN result :
              KeyOf(result[r]) # SentinelKey =>
                  Cover(ResultNets[r]) =
                      SameKeyInputsIn(ResultNets[r], KeyOf(result[r]))

\* every member of the merge-set behind a new non-sentinel processed entry
\* carries that entry's key
C2_StepPart ==
    (pc = "reconcile" /\ processed' # processed) =>
        \A k \in (Len(processed) + 1) .. Len(processed') :
            KeyOf(processed'[k]) # SentinelKey =>
                \A m \in {i} \cup Range(can_merge') :
                    KeyOf(networks_with_metadata[m]) = KeyOf(processed'[k])

\* C2: an output entry with a non-sentinel key K covers exactly the inputs of
\* key K inside it, and every member of the group collapse or merge-set that
\* produced it carries K.
C2_MetadataHomogeneity == [][C2_StepPart /\ C2_StatePart']_vars

C2_Witness ==
    /\ pc = "done"
    /\ \E r \in DOMAIN result :
          /\ KeyOf(result[r]) # SentinelKey
          /\ \E a, b \in DOMAIN raw_data :
                /\ InputKey(a) = KeyOf(result[r])
                /\ InputKey(b) # InputKey(a)
                /\ InputNets[a] # ResultNets[r]
                /\ Cover(InputNets[a]) \subseteq Cover(ResultNets[r])
    /\ \E r \in DOMAIN result : KeyOf(result[r]) = SentinelKey

\* C3: no two distinct entries of the returned sequence overlap.
C3_NonOverlappingOutput ==
    pc = "done" =>
        \A r1, r2 \in DOMAIN result :
            r1 # r2 => Disjoint(ResultNets[r1], ResultNets[r2])

\* C4: the output of coalesce_with_metadata covers exactly the addresses the
\* input covers.
C4_CoveragePreserved ==
    pc = "done" => CoverAll(ResultNets) = CoverAll(InputNets)

C4_Witness ==
    /\ pc = "done"
    /\ Len(networks_with_metadata) >= 2
    /\ Len(result) < Len(networks_with_metadata)
    /\ CoverAll(ResultNets) # 0 .. ALL_ONES

\* C5: collapse(S) covers exactly the addresses S covers, for any input
\* order and with duplicates.
C5_PlainCoverage ==
    pc \notin {"fetch", "compact"} => CoverAll(CompactedNets) = CoverAll(InputNets)

C5_Witness ==
    /\ pc = "group"
    /\ \E j, k \in DOMAIN raw_data :
          j < k /\ InputNets[j] = InputNets[k]
    /\ \E j, k \in DOMAIN raw_data :
          j < k /\ NetLT(InputNets[k], InputNets[j])
    /\ Len(compacted) >= 1
    /\ CoverAll(CompactedNets) # 0 .. ALL_ONES

\* C6: no two networks of collapse(S) overlap and no two are exactly-combinable
\* siblings.
C6_PlainMinimal ==
    pc \notin {"fetch", "compact"} =>
        \A k1, k2 \in DOMAIN compacted :
            k1 # k2 => /\ Disjoint(CompactedNets[k1], CompactedNets[k2])
                       /\ ~Siblings(CompactedNets[k1], CompactedNets[k2])

\* a block and two half-size blocks that form its sibling collapse to one
C6_Witness ==
    /\ pc = "group"
    /\ \E a, b, c \in DOMAIN raw_data :
          /\ Siblings(InputNets[b], InputNets[c])
          /\ Siblings(InputNets[a], Parent(InputNets[b], InputNets[c]))
    /\ Len(compacted) = 1

\* C7: two sibling blocks with different keys come out as one entry, their
\* parent block with the sentinel key.
C7_SiblingsAcrossGroups ==
    (/\ pc = "done"
     /\ Len(raw_data) = 2
     /\ InputKey(1) # InputKey(2)
     /\ Siblings(InputNets[1], InputNets[2])) =>
        result = << [ip_prefix |-> Str(Parent(InputNets[1], InputNets[2])),
                     region |-> "other", service |-> "OTHER",
                     network_border_group |-> "other"] >>

\* C8: when all inputs share one key K, the output is collapse(inputs) in the
\* same order and every entry carries K.
C8_SingleKey ==
    (pc = "done" /\ \A a, b \in DOMAIN raw_data : InputKey(a) = InputKey(b)) =>
        /\ Len(result) = Len(compacted)
        /\ \A k \in DOMAIN result :
              /\ result[k].ip_prefix = compacted[k].ip_prefix
              /\ KeyOf(result[k]) = InputKey(1)

C8_Witness ==
    /\ pc = "done"
    /\ Len(raw_data) = 2
    /\ InputKey(1) = InputKey(2)
    /\ InputKey(1) # SentinelKey
    /\ Siblings(InputNets[1], InputNets[2])
    /\ Len(result) = 1
    /\ KeyOf(result[1]) = InputKey(1)

\* C9: the returned sequence is ascending by base address, ties broken by the
\* shorter prefix first.
C9_SortedOutput ==
    pc = "done" =>
        \A k \in 1 .. (Len(result) - 1) :
            \/ ResultNets[k].network_address < ResultNets[k + 1].network_address
            \/ /\ ResultNets[k].network_address = ResultNets[k + 1].network_address
               /\ ResultNets[k].prefixlen <= ResultNets[k + 1].prefixlen

C9_Witness ==
    /\ pc = "done"
    /\ Len(result) >= 2
    /\ result # Format(processed)
    /\ \E r1, r2 \in DOMAIN result : KeyOf(result[r1]) # KeyOf(result[r2])

\* one iteration of the outer loop that found a non-empty merge-set
C10_Step ==
    (pc = "reconcile" /\ i' = i + 1 /\ i \notin skip_indices /\ can_merge' # <<>>) =>
        /\ \A j \in Range(can_merge') :
              KeyOf(networks_with_metadata[j]) # KeyOf(networks_with_metadata[i])
        /\ metadata_matches' = <<FALSE>>
        /\ Len(processed') > Len(processed)
        /\ \A k \in (Len(processed) + 1) .. Len(processed') :
              KeyOf(processed'[k]) = SentinelKey

\* C10: in the cross-group pass every member of a non-empty merge-set has a key
\* different from the current entry's, so metadata_matches is false and every
\* result of the merge carries the sentinel key.
C10_MergeSetsHeterogeneous == [][C10_Step]_vars

C10_Witness ==
    /\ pc = "reconcile"
    /\ Len(can_merge) >= 2
    /\ metadata_matches = <<FALSE>>

====
